---- MODULE Spec2Model ----
(***************************************************************************)
(* A model of flaskbb.plugins (src/flaskbb/plugins/__init__.py): the       *)
(* plugin registry FlaskBBPluginManager.load_plugins, the table-tagging    *)
(* handle db_for_plugin, the migration namespace plugin_name_migrate, the  *)
(* FlaskBBPlugin migration wrappers and the config_migrate callback.       *)
(*                                                                         *)
(* Python strings that the code takes apart or tests for a character are   *)
(* sequences of tokens (a token is a substring that holds none of the      *)
(* characters ' ', '"', "'", '/' and '@' unless it is that one character). *)
(* Python dictionaries are functions; the empty dictionary is Empty.       *)
(***************************************************************************)
EXTENDS Integers, Sequences, FiniteSets, TLC

VARIABLES
    \* FlaskBBPluginManager
    _plugins,        \* identifier -> instance of every enabled plugin
    _all_plugins,    \* identifier -> instance of every plugin
    _found_plugins,  \* class name -> package name; never reset by load_plugins
    pluginmodules,   \* the scan of the running (or last) load_plugins call
    idx,             \* position of the for loop in pluginmodules
    pc,              \* "idle" or "loop": where load_plugins is
    error,           \* what the last load_plugins call raised, or NoError
    created,         \* package names instantiated by the running (or last) call
    loads,           \* number of load_plugins calls so far
    \* db_for_plugin
    dbs,             \* the Flask-SQLAlchemy objects: dbs[1] is flaskbb.extensions.db
    handleNames,     \* handleNames[h]: the plugin_name that object h was made for
    tables,          \* the tables created so far, each with the object it came
                     \* from (via) and the number of objects at that time (when)
    \* FlaskBBPlugin and plugin_name_migrate
    plugin_folder,   \* current_app.extensions['plugin_manager'].plugin_folder
    g_plugin_name,   \* flask.g.plugin_name, or Unset
    self,            \* the plugin of the running (or last) operation
    lastOp,          \* the running (or last) operation and its argument
    mpc,             \* where FlaskBBPlugin.migrate is: "idle", "first", "second", "exit"
    calls,           \* the calls to flask_migrate of the running (or last) operation
    raised,          \* what the last operation raised, or NoError
    \* config_migrate
    lastConfig       \* the last call of config_migrate: the config given, its options
                     \* before and after, and the object returned

loadVars == <<_plugins, _all_plugins, _found_plugins, pluginmodules, idx, pc,
              error, created, loads>>

dbVars == <<dbs, handleNames, tables>>

migrateVars == <<plugin_folder, g_plugin_name, self, lastOp, mpc, calls, raised>>

vars == <<loadVars, dbVars, migrateVars, lastConfig>>

----------------------------------------------------------------------------
\* Bounds of the model.

\* Number of modules the plugin folder can hold.
MaxModules == 2

\* Number of load_plugins calls in one behaviour.
MaxLoads == 2

\* Number of Flask-SQLAlchemy objects (the original and its copies).
MaxDbs == 3

\* Number of tables created in one behaviour.
MaxTables == 2

----------------------------------------------------------------------------
\* Python values.

\* The empty dict.
Empty == [k \in {} |-> k]

\* dict[key] = value
DictSet(d, key, value) == (key :> value) @@ d

NoError == "NoError"

\* None, where a string (a sequence of tokens) can stand too.
None == <<"<None>">>

\* ch in s
Contains(s, ch) == \E k \in DOMAIN s : s[k] = ch

RECURSIVE str_join(_, _)
\* sep.join(strs)
str_join(sep, strs) ==
    IF strs = <<>> THEN <<>>
    ELSE IF Len(strs) = 1 THEN strs[1]
    ELSE strs[1] \o sep \o str_join(sep, Tail(strs))

RECURSIVE str_split(_, _)
\* s.split(ch)
str_split(s, ch) ==
    IF ~Contains(s, ch) THEN <<s>>
    ELSE LET k == CHOOSE i \in DOMAIN s : s[i] = ch /\ \A j \in 1..(i - 1) : s[j] /= ch
         IN <<SubSeq(s, 1, k - 1)>> \o str_split(SubSeq(s, k + 1, Len(s)), ch)

\* os.path.join(a, b)
path_join(a, b) ==
    IF b /= <<>> /\ b[1] = "/" THEN b
    ELSE IF a = <<>> \/ a[Len(a)] = "/" THEN a \o b
    ELSE a \o <<"/">> \o b

RECURSIVE path_join_all(_, _)
\* os.path.join(a, *names)
path_join_all(a, names) ==
    IF names = <<>> THEN a
    ELSE path_join_all(path_join(a, names[1]), Tail(names))

\* A module without the attribute __plugin__.
NoAttr == "NoAttr"

----------------------------------------------------------------------------
\* The plugin folder: what pkgutil.iter_modules finds and the import loads.

\* The class a module defines, and a name that no module defines.
PluginClass == "PortalPlugin"

MissingClass == "MissingPlugin"

PkgIndex == 1..MaxModules

\* __name__ + '.' + the module's name
PkgName(i) == "flaskbb.plugins" \o "." \o "p" \o ToString(i)

\* The identifier a plugin's info.json gives it: its own, or one that another
\* plugin uses too.
Identifier(i, own) == IF own THEN "id" \o ToString(i) ELSE "shared"

\* The directory of the module's file. __path__ is extended by the directories
\* flaskbb_plugins of sys.path: module 1 lives in one whose name holds a space.
PluginPath(i) ==
    IF i = 1
    THEN <<"/opt/my", " ", "site", "/", "flaskbb_plugins", "/", "p" \o ToString(i)>>
    ELSE <<"/srv/flaskbb/flaskbb/plugins", "/", "p" \o ToString(i)>>

\* What a module file of the folder defines: its __plugin__ attribute, whether
\* the class it names is an attribute of the module, whether its package holds
\* a file DISABLED, and whether the plugin's identifier is its own.
ModuleDefs ==
    [plugin : {NoAttr}, hasClass : {FALSE}, disabled : BOOLEAN, own : {TRUE}]
    \cup
    [plugin : {MissingClass}, hasClass : {FALSE}, disabled : {FALSE}, own : {TRUE}]
    \cup
    [plugin : {PluginClass}, hasClass : {TRUE}, disabled : BOOLEAN, own : BOOLEAN]

Absent == [plugin |-> "absent"]

\* The states of the plugin folder.
Folders == [PkgIndex -> ModuleDefs \cup {Absent}]

\* The module that the import of file i yields.
load_module(f, i) ==
    [name |-> PkgName(i), plugin |-> f[i].plugin, hasClass |-> f[i].hasClass,
     disabled |-> f[i].disabled, identifier |-> Identifier(i, f[i].own),
     path |-> PluginPath(i)]

RECURSIVE Listing(_, _)
\* The modules of folder f from index i on, in the order of their names.
Listing(f, i) ==
    IF i > MaxModules THEN <<>>
    ELSE IF f[i] = Absent THEN Listing(f, i + 1)
    ELSE <<load_module(f, i)>> \o Listing(f, i + 1)

\* [(name, load_module(name)) for ... in pkgutil.iter_modules(...)]
iter_modules(f) == Listing(f, 1)

----------------------------------------------------------------------------
\* FlaskBBPluginManager.load_plugins

\* A faulty Enabled: the DISABLED file is never looked for.
EnabledAlways(pkg) == TRUE

\* try: pkgutil.get_data(pkgname, 'DISABLED'); enabled = False
\* except IOError: enabled = True
\* (for a package on the file system get_data raises IOError exactly when the
\* file is missing)
Enabled(pkg) == ~pkg.disabled

\* A faulty OnMissingAttr: the AttributeError is not caught.
RaiseOnMissingAttr(st) == [st EXCEPT !.ctl = "raise", !.error = "AttributeError"]

\* class_name = pkg.__plugin__ raises AttributeError, before _found_plugins is
\* assigned to: except AttributeError: continue
OnMissingAttr(st) == [st EXCEPT !.ctl = "continue"]

\* plugin_class(plugin_path), made by call number n
Instance(pkg, n) ==
    [identifier |-> pkg.identifier, path |-> pkg.path, module |-> pkg.name,
     class |-> pkg.plugin, load |-> n]

\* One pass of the for loop over pkg, from the manager's dictionaries in st.
load_iteration(st, pkg, n) ==
    LET enabled == Enabled(pkg) IN
    IF pkg.plugin = NoAttr THEN OnMissingAttr(st)
    ELSE
      LET class_name == pkg.plugin
          found == DictSet(st.found, class_name, pkg.name)
      IN
      IF ~pkg.hasClass
      THEN [st EXCEPT !.found = found, !.ctl = "raise", !.error = "PluginError"]
      ELSE
        LET plugin_instance == Instance(pkg, n) IN
        [st EXCEPT
           !.found = found,
           !.plugins = IF enabled
                       THEN DictSet(st.plugins, plugin_instance.identifier, plugin_instance)
                       ELSE st.plugins,
           !.all = DictSet(st.all, plugin_instance.identifier, plugin_instance),
           !.created = st.created \cup {pkg.name},
           !.ctl = "next"]

\* self._plugins = {}; self._all_plugins = {}; pluginmodules = [...]
load_plugins_begin ==
    /\ pc = "idle"
    /\ loads < MaxLoads
    /\ \E f \in Folders : pluginmodules' = iter_modules(f)
    /\ _plugins' = Empty
    /\ _all_plugins' = Empty
    /\ idx' = 1
    /\ pc' = "loop"
    /\ error' = NoError
    /\ created' = {}
    /\ loads' = loads + 1
    /\ UNCHANGED <<_found_plugins, dbVars, migrateVars, lastConfig>>

\* for pkgname, pkg in pluginmodules: ...
load_plugins_iteration ==
    /\ pc = "loop"
    /\ idx <= Len(pluginmodules)
    /\ LET st == [plugins |-> _plugins, all |-> _all_plugins, found |-> _found_plugins,
                  created |-> created, ctl |-> "next", error |-> NoError]
           r == load_iteration(st, pluginmodules[idx], loads)
       IN
       /\ _plugins' = r.plugins
       /\ _all_plugins' = r.all
       /\ _found_plugins' = r.found
       /\ created' = r.created
       /\ error' = r.error
       /\ IF r.ctl = "raise"
          THEN pc' = "idle" /\ idx' = idx
          ELSE pc' = "loop" /\ idx' = idx + 1
    /\ UNCHANGED <<pluginmodules, loads, dbVars, migrateVars, lastConfig>>

\* return self._found_plugins
load_plugins_return ==
    /\ pc = "loop"
    /\ idx > Len(pluginmodules)
    /\ pc' = "idle"
    /\ UNCHANGED <<_plugins, _all_plugins, _found_plugins, pluginmodules, idx,
                   error, created, loads, dbVars, migrateVars, lastConfig>>

\* PluginManager.__init__: no plugin loaded yet.
InitLoad ==
    /\ _plugins = Empty
    /\ _all_plugins = Empty
    /\ _found_plugins = Empty
    /\ pluginmodules = <<>>
    /\ idx = 1
    /\ pc = "idle"
    /\ error = NoError
    /\ created = {}
    /\ loads = 0

----------------------------------------------------------------------------
\* db_for_plugin

\* A table that was given no attribute _plugin.
NoPlugin == "<no _plugin>"

\* The names that plugins pass to db_for_plugin (their __name__).
PluginNames == {PkgName(i) : i \in 1..2}

\* The method Table of the class SQLAlchemy.
NativeTable == [kind |-> "native"]

\* The function Table defined inside db_for_plugin: it keeps the plugin_name and
\* the sqla_instance of the call that defined it.
TableClosure(plugin_name, sqla_instance) ==
    [kind |-> "closure", plugin_name |-> plugin_name, sqla_instance |-> sqla_instance]

\* flaskbb.extensions.db
DefaultDb == 1

\* new_db = copy.copy(sqla_instance); new_db.Table = Table
db_for_plugin_object(heap, plugin_name, sqla_instance) ==
    [heap[sqla_instance] EXCEPT !.Table = TableClosure(plugin_name, sqla_instance)]

RECURSIVE TableLatestName(_, _)
\* A faulty CallTable: Table reads the plugin_name of the latest db_for_plugin
\* call, as it would were the name kept in one place for all handles.
TableLatestName(heap, h) ==
    IF heap[h].Table.kind = "native" THEN [_plugin |-> NoPlugin]
    ELSE [TableLatestName(heap, heap[h].Table.sqla_instance)
            EXCEPT !._plugin = heap[Len(heap)].Table.plugin_name]

RECURSIVE CallTable(_, _)
\* heap[h].Table(...): the table that the call returns.
\*   new_table = sqla_instance.Table(*args, **kwargs)
\*   new_table._plugin = plugin_name
CallTable(heap, h) ==
    IF heap[h].Table.kind = "native" THEN [_plugin |-> NoPlugin]
    ELSE [CallTable(heap, heap[h].Table.sqla_instance)
            EXCEPT !._plugin = heap[h].Table.plugin_name]

\* db_for_plugin(plugin_name, sqla_instance); sqla_instance None stands for the
\* default db.
db_for_plugin ==
    /\ Len(dbs) < MaxDbs
    /\ \E plugin_name \in PluginNames, arg \in {0} \cup DOMAIN dbs :
         LET sqla_instance == IF arg = 0 THEN DefaultDb ELSE arg IN
         /\ dbs' = Append(dbs, db_for_plugin_object(dbs, plugin_name, sqla_instance))
         /\ handleNames' = Append(handleNames, plugin_name)
    /\ UNCHANGED <<tables, loadVars, migrateVars, lastConfig>>

\* A plugin (or the application) creates a table through object h.
create_table ==
    /\ Len(tables) < MaxTables
    /\ \E h \in DOMAIN dbs :
         tables' = Append(tables, [via |-> h, when |-> Len(dbs), table |-> CallTable(dbs, h)])
    /\ UNCHANGED <<dbs, handleNames, loadVars, migrateVars, lastConfig>>

\* The application's db, before any plugin asks for a handle.
InitDb ==
    /\ dbs = <<[Table |-> NativeTable]>>
    /\ handleNames = <<NoPlugin>>
    /\ tables = <<>>

----------------------------------------------------------------------------
\* FlaskBBPlugin

\* g has no attribute plugin_name.
Unset == "<unset>"

\* settings_key = None unless the plugin's class sets it.
SettingsKeys(i) == {None, <<"plugin_p" \o ToString(i)>>}

\* The plugin instances: one class with and one without a settings_key for
\* every module of the folder.
PluginObjects ==
    {[module |-> PkgName(i), path |-> PluginPath(i), settings_key |-> k] :
        i \in PkgIndex, k \in UNION {SettingsKeys(j) : j \in PkgIndex}}
    \cap UNION {[module : {PkgName(i)}, path : {PluginPath(i)}, settings_key : SettingsKeys(i)] :
                   i \in PkgIndex}

PluginFolders == {<<"/srv/flaskbb/flaskbb/plugins">>, <<"/srv/flaskbb/flaskbb/plugins", "/">>}

\* The revisions a caller asks for.
Targets == {<<"head">>, <<"base">>, <<"4f2e1a9c">>}

\* The argument target: given, or left to its default.
TargetArgs == {[given |-> FALSE]} \cup [given : {TRUE}, target : Targets]

\* How a call to flask_migrate ends: it returns, raises an Exception, or raises
\* a BaseException that is no Exception.
Outcomes == {"ok", "Exception", "SystemExit"}

\* FlaskBBPlugin.resource_filename(*names)
resource_filename(plugin, names) ==
    LET parts == IF Len(names) = 1 /\ Contains(names[1], "/")
                 THEN str_split(names[1], "/")
                 ELSE names
        fname == path_join_all(plugin.path, parts)
    IN IF Contains(fname, " ") /\ ~Contains(fname, "\"") /\ ~Contains(fname, "'")
       THEN <<"\"">> \o fname \o <<"\"">>
       ELSE fname

\* FlaskBBPlugin.get_migration_version_dir()
get_migration_version_dir(plugin) ==
    resource_filename(plugin, << <<"migration_versions">> >>)

\* os.path.join(plugin_dir, '_migration_environment')
migration_environment(plugin_dir) == path_join(plugin_dir, <<"_migration_environment">>)

\* def upgrade_database(self, target='head')
upgrade_target(arg) == IF arg.given THEN arg.target ELSE <<"head">>

\* A faulty downgrade_target: the default of upgrade_database.
DowngradeToHead(arg) == IF arg.given THEN arg.target ELSE <<"head">>

\* def downgrade_database(self, target='base')
downgrade_target(arg) == IF arg.given THEN arg.target ELSE <<"base">>

\* self.settings_key + '@' + target
revision(settings_key, target) == settings_key \o <<"@">> \o target

\* What an operation raises when the call to flask_migrate ended with outcome.
Propagated(outcome) == IF outcome = "ok" THEN NoError ELSE outcome

\* The body shared by upgrade_database and downgrade_database: the calls made
\* to flask_migrate (tool is the function called) and what the method raises.
database_command(plugin, tool, target, plugin_dir, g, outcome) ==
    IF plugin.settings_key = None
    THEN \* None + '@' raises TypeError while the arguments are evaluated
         [calls |-> <<>>, raised |-> "TypeError"]
    ELSE [calls |-> <<[tool |-> tool,
                       directory |-> migration_environment(plugin_dir),
                       revision |-> revision(plugin.settings_key, target),
                       g |-> g,
                       outcome |-> outcome]>>,
          raised |-> Propagated(outcome)]

upgrade_database ==
    /\ mpc = "idle"
    /\ \E plugin \in PluginObjects, arg \in TargetArgs, outcome \in Outcomes :
         LET r == database_command(plugin, "upgrade", upgrade_target(arg),
                                   plugin_folder, g_plugin_name, outcome)
         IN /\ self' = plugin
            /\ lastOp' = [op |-> "upgrade_database", arg |-> arg]
            /\ calls' = r.calls
            /\ raised' = r.raised
    /\ UNCHANGED <<plugin_folder, g_plugin_name, mpc, loadVars, dbVars, lastConfig>>

downgrade_database ==
    /\ mpc = "idle"
    /\ \E plugin \in PluginObjects, arg \in TargetArgs, outcome \in Outcomes :
         LET r == database_command(plugin, "downgrade", downgrade_target(arg),
                                   plugin_folder, g_plugin_name, outcome)
         IN /\ self' = plugin
            /\ lastOp' = [op |-> "downgrade_database", arg |-> arg]
            /\ calls' = r.calls
            /\ raised' = r.raised
    /\ UNCHANGED <<plugin_folder, g_plugin_name, mpc, loadVars, dbVars, lastConfig>>

\* plugin_name_migrate, up to the yield: g.plugin_name = name
plugin_name_migrate_enter(name) == name

\* A faulty plugin_name_migrate_exit: g.plugin_name is not deleted.
KeepPluginName(value) == value

\* plugin_name_migrate, after the yield: del g.plugin_name
plugin_name_migrate_exit(value) == Unset

\* A faulty after_first_attempt: the second call is made whatever the first did.
AlwaysSecond(outcome) == "second"

\* FlaskBBPlugin.migrate: where control goes after the first call ended.
after_first_attempt(outcome) ==
    IF outcome = "ok" THEN "exit"           \* the try block is left
    ELSE IF outcome = "Exception" THEN "second"   \* except Exception
    ELSE "idle"                               \* not caught: leaves migrate

\* FlaskBBPlugin.migrate: with plugin_name_migrate(self.__module__):
migrate_enter ==
    /\ mpc = "idle"
    /\ \E plugin \in PluginObjects :
         /\ self' = plugin
         /\ g_plugin_name' = plugin_name_migrate_enter(plugin.module)
    /\ lastOp' = [op |-> "migrate"]
    /\ calls' = <<>>
    /\ raised' = NoError
    /\ mpc' = "first"
    /\ UNCHANGED <<plugin_folder, loadVars, dbVars, lastConfig>>

\* try: migrate(directory=..., head=self.settings_key)
migrate_first ==
    /\ mpc = "first"
    /\ \E outcome \in Outcomes :
         /\ calls' = Append(calls, [tool |-> "migrate",
                                    directory |-> migration_environment(plugin_folder),
                                    head |-> self.settings_key,
                                    g |-> g_plugin_name,
                                    outcome |-> outcome])
         /\ mpc' = after_first_attempt(outcome)
         /\ raised' = IF mpc' = "idle" THEN Propagated(outcome) ELSE NoError
    /\ UNCHANGED <<plugin_folder, g_plugin_name, self, lastOp, loadVars, dbVars, lastConfig>>

\* except Exception: migrate(directory=..., version_path=..., branch_label=...)
migrate_second ==
    /\ mpc = "second"
    /\ \E outcome \in Outcomes :
         /\ calls' = Append(calls, [tool |-> "migrate",
                                    directory |-> migration_environment(plugin_folder),
                                    version_path |->
                                        resource_filename(self, << <<"migration_versions">> >>),
                                    branch_label |-> self.settings_key,
                                    g |-> g_plugin_name,
                                    outcome |-> outcome])
         /\ mpc' = IF outcome = "ok" THEN "exit" ELSE "idle"
         /\ raised' = Propagated(outcome)
    /\ UNCHANGED <<plugin_folder, g_plugin_name, self, lastOp, loadVars, dbVars, lastConfig>>

\* the with block is left: del g.plugin_name
migrate_exit ==
    /\ mpc = "exit"
    /\ g_plugin_name' = plugin_name_migrate_exit(g_plugin_name)
    /\ mpc' = "idle"
    /\ UNCHANGED <<plugin_folder, self, lastOp, calls, raised, loadVars, dbVars, lastConfig>>

\* No operation of a plugin has run; self is a placeholder.
InitMigrate ==
    /\ plugin_folder \in PluginFolders
    /\ g_plugin_name = Unset
    /\ self = [module |-> "", path |-> <<>>, settings_key |-> None]
    /\ lastOp = [op |-> "none"]
    /\ mpc = "idle"
    /\ calls = <<>>
    /\ raised = NoError

----------------------------------------------------------------------------
\* config_migrate

\* The options of an alembic Config that the callback reads or writes, each
\* None when the file does not set it.
ConfigOptions ==
    [version_table : {None, <<"plugins">>, <<"alembic_version">>},
     version_locations : {None, <<"migrations/versions">>}]

\* The Config objects that flask_migrate hands to the callback.
ConfigIds == {"config1", "config2"}

\* config.get_main_option(name)
get_main_option(options, name) == options[name]

\* config.set_main_option(name, value)
set_main_option(options, name, value) == [options EXCEPT ![name] = value]

\* The orders in which a dict with the keys S yields its values: the code fixes
\* none.
Orders(S) ==
    {o \in [1..Cardinality(S) -> S] : \A i, j \in DOMAIN o : i /= j => o[i] /= o[j]}

\* A faulty migration_plugins: the property plugins, which leaves out the
\* disabled ones.
EnabledPluginsOnly(all, enabled) == enabled

\* current_app.extensions['plugin_manager'].all_plugins
migration_plugins(all, enabled) == all

\* config_migrate(config), from the values of all_plugins in the order given
config_migrate_options(options, plugins) ==
    LET migration_dirs == [k \in DOMAIN plugins |-> get_migration_version_dir(plugins[k])]
    IN IF get_main_option(options, "version_table") = <<"plugins">>
       THEN set_main_option(options, "version_locations", str_join(<<" ">>, migration_dirs))
       ELSE options

config_migrate ==
    /\ pc = "idle"
    /\ \E config \in ConfigIds, options \in ConfigOptions :
         LET d == migration_plugins(_all_plugins, _plugins) IN
         \E order \in Orders(DOMAIN d) :
           lastConfig' = [called |-> TRUE,
                          given |-> config,
                          before |-> options,
                          after |-> config_migrate_options(options,
                                        [k \in DOMAIN order |-> d[order[k]]]),
                          returned |-> config]
    /\ UNCHANGED <<loadVars, dbVars, migrateVars>>

InitConfig == lastConfig = [called |-> FALSE]

RECURSIVE load_plugins_run(_, _, _, _)
\* The for loop of load_plugins from position i of the scan on, until it ends
\* or raises.
load_plugins_run(st, scan, i, n) ==
    IF i > Len(scan) THEN [st EXCEPT !.idx = i]
    ELSE LET r == load_iteration(st, scan[i], n) IN
         IF r.ctl = "raise" THEN [r EXCEPT !.idx = i]
         ELSE load_plugins_run([r EXCEPT !.ctl = "next"], scan, i + 1, n)

\* The manager after its first load_plugins call, over any state of the folder.
InitLoaded ==
    \E f \in Folders :
      LET st == [plugins |-> Empty, all |-> Empty, found |-> Empty, created |-> {},
                 ctl |-> "next", error |-> NoError, idx |-> 1]
          r == load_plugins_run(st, iter_modules(f), 1, 1)
      IN /\ _plugins = r.plugins
         /\ _all_plugins = r.all
         /\ _found_plugins = r.found
         /\ pluginmodules = iter_modules(f)
         /\ idx = r.idx
         /\ pc = "idle"
         /\ error = r.error
         /\ created = r.created
         /\ loads = 1

----------------------------------------------------------------------------
\* Specifications.

Init == InitLoad /\ InitDb /\ InitMigrate /\ InitConfig

NextLoad ==
    \/ load_plugins_begin
    \/ load_plugins_iteration
    \/ load_plugins_return

SpecLoad == Init /\ [][NextLoad]_vars

NextDb ==
    \/ db_for_plugin
    \/ create_table

SpecDb == Init /\ [][NextDb]_vars

NextMigrate ==
    \/ upgrade_database
    \/ downgrade_database
    \/ migrate_enter
    \/ migrate_first
    \/ migrate_second
    \/ migrate_exit

SpecMigrate == Init /\ [][NextMigrate]_vars

InitWithPlugins == InitLoaded /\ InitDb /\ InitMigrate /\ InitConfig

NextConfig == config_migrate

SpecConfig == InitWithPlugins /\ [][NextConfig]_vars

----------------------------------------------------------------------------
\* Properties of load_plugins.

\* The module defines __plugin__ and the class it names.
Valid(pkg) == pkg.plugin /= NoAttr /\ pkg.hasClass

\* The module defines __plugin__, and no class of that name.
Broken(pkg) == pkg.plugin /= NoAttr /\ ~pkg.hasClass

DistinctIdentifiers(scan) ==
    \A i, j \in DOMAIN scan : i /= j => scan[i].identifier /= scan[j].identifier

\* load_plugins has been called and is not running.
LoadDone == pc = "idle" /\ loads > 0

\* d holds exactly one instance, made by the latest call, for each module of the
\* scan at the positions S.
HoldsExactly(d, scan, S) ==
    /\ DOMAIN d = {scan[i].identifier : i \in S}
    /\ \A i \in S :
         LET inst == d[scan[i].identifier] IN
         /\ inst.module = scan[i].name
         /\ inst.path = scan[i].path
         /\ inst.identifier = scan[i].identifier
         /\ inst.load = loads

\* The positions before the first module whose __plugin__ names no class.
BeforeBroken(scan) ==
    {i \in DOMAIN scan : \A j \in 1..i : ~Broken(scan[j])}

\* C1 as written: after load_plugins over a scan with pairwise distinct
\* identifiers, _all_plugins holds exactly one instance for every module of the
\* scan that defines __plugin__ naming an existing class, and _plugins those of
\* them without a DISABLED file.
C1_EveryValidModuleLoaded ==
    (LoadDone /\ DistinctIdentifiers(pluginmodules)) =>
        /\ HoldsExactly(_all_plugins, pluginmodules,
                        {i \in DOMAIN pluginmodules : Valid(pluginmodules[i])})
        /\ HoldsExactly(_plugins, pluginmodules,
                        {i \in DOMAIN pluginmodules :
                            Valid(pluginmodules[i]) /\ ~pluginmodules[i].disabled})

\* C1 amended: after load_plugins over a scan with pairwise distinct
\* identifiers, _all_plugins holds exactly one instance, made by that call, for
\* every valid module that precedes the first module whose __plugin__ names a
\* missing class (every valid module when the call returned), and _plugins
\* exactly those of them without a DISABLED file.
C1_ValidModulesBeforeBrokenLoaded ==
    (LoadDone /\ DistinctIdentifiers(pluginmodules)) =>
        /\ (error = NoError <=> \A i \in DOMAIN pluginmodules : ~Broken(pluginmodules[i]))
        /\ HoldsExactly(_all_plugins, pluginmodules,
                        {i \in BeforeBroken(pluginmodules) : Valid(pluginmodules[i])})
        /\ HoldsExactly(_plugins, pluginmodules,
                        {i \in BeforeBroken(pluginmodules) :
                            Valid(pluginmodules[i]) /\ ~pluginmodules[i].disabled})
        /\ \A i \in DOMAIN pluginmodules :
             (Valid(pluginmodules[i]) /\ pluginmodules[i].disabled) =>
                 pluginmodules[i].identifier \notin DOMAIN _plugins

\* A second call has returned over a scan of an enabled and a disabled plugin.
C1_Witness ==
    /\ LoadDone
    /\ loads >= 2
    /\ error = NoError
    /\ DistinctIdentifiers(pluginmodules)
    /\ \E i, j \in DOMAIN pluginmodules :
         /\ Valid(pluginmodules[i]) /\ pluginmodules[i].disabled
         /\ Valid(pluginmodules[j]) /\ ~pluginmodules[j].disabled
         /\ pluginmodules[i].identifier \in DOMAIN _all_plugins
         /\ pluginmodules[j].identifier \in DOMAIN _plugins

\* C2: the pass of the loop over a module without __plugin__ instantiates
\* nothing, leaves _found_plugins, _plugins and _all_plugins as they are, raises
\* nothing and moves on to the next module of the scan.
C2_ModuleWithoutPluginSkipped ==
    [][(pc = "loop" /\ idx <= Len(pluginmodules) /\ pluginmodules[idx].plugin = NoAttr) =>
          /\ _found_plugins' = _found_plugins
          /\ _plugins' = _plugins
          /\ _all_plugins' = _all_plugins
          /\ created' = created
          /\ error' = NoError
          /\ pc' = "loop"
          /\ idx' = idx + 1
          /\ pluginmodules' = pluginmodules]_vars

\* A call returned that skipped a module and then loaded the module after it.
C2_Witness ==
    /\ LoadDone
    /\ error = NoError
    /\ Len(pluginmodules) = 2
    /\ pluginmodules[1].plugin = NoAttr
    /\ Valid(pluginmodules[2])
    /\ created = {pluginmodules[2].name}
    /\ DOMAIN _all_plugins = {pluginmodules[2].identifier}
    /\ idx = Len(pluginmodules) + 1

----------------------------------------------------------------------------
\* Properties of db_for_plugin.

\* C3: a table created through the handle made for plugin p carries
\* _plugin = p, whatever handles were made before or after it; the Table of the
\* original db is never replaced and its tables carry no _plugin.
C3_TablesTaggedByOwnHandle ==
    /\ dbs[DefaultDb].Table = NativeTable
    /\ \A k \in DOMAIN tables :
         IF tables[k].via = DefaultDb
         THEN tables[k].table._plugin = NoPlugin
         ELSE tables[k].table._plugin = handleNames[tables[k].via]

\* Two handles for different plugins exist; a table was created through the
\* older one after the newer one was made, and one through the original db.
C3_Witness ==
    /\ Len(dbs) >= 3
    /\ handleNames[2] /= handleNames[3]
    /\ \E k \in DOMAIN tables :
         /\ tables[k].via = 2
         /\ tables[k].when >= 3
         /\ tables[k].table._plugin = handleNames[2]
    /\ \E k \in DOMAIN tables : tables[k].via = DefaultDb

----------------------------------------------------------------------------
\* Properties of the migration wrappers.

\* <plugin's directory>/migration_versions, in quotes when it holds a space.
ExpectedVersionDir(plugin) ==
    LET d == plugin.path \o <<"/", "migration_versions">> IN
    IF \E k \in DOMAIN d : d[k] = " " THEN <<"\"">> \o d \o <<"\"">> ELSE d

\* <plugin_folder>/_migration_environment
ExpectedEnvironment ==
    LET d == IF plugin_folder[Len(plugin_folder)] = "/"
             THEN SubSeq(plugin_folder, 1, Len(plugin_folder) - 1)
             ELSE plugin_folder
    IN d \o <<"/", "_migration_environment">>

InMigrateBlock == mpc \in {"first", "second", "exit"}

\* C4: while the body of `with plugin_name_migrate(name)` runs, and in every
\* call to the migration tool made from it, g.plugin_name equals name; once the
\* block has been left normally g.plugin_name is not set.
C4_PluginNameSetInsideBlockOnly ==
    /\ InMigrateBlock => g_plugin_name = self.module
    /\ lastOp.op = "migrate" => \A k \in DOMAIN calls : calls[k].g = self.module
    /\ (lastOp.op = "migrate" /\ mpc = "idle" /\ raised = NoError) => g_plugin_name = Unset

\* migrate has run both of its calls and left the block normally.
C4_Witness ==
    /\ lastOp.op = "migrate"
    /\ mpc = "idle"
    /\ raised = NoError
    /\ Len(calls) = 2
    /\ calls[2].g = self.module
    /\ g_plugin_name = Unset

DatabaseOpDone == lastOp.op \in {"upgrade_database", "downgrade_database"}

\* The one call the operation lastOp of self is to make.
OneScopedCall ==
    LET up == lastOp.op = "upgrade_database"
        target == IF lastOp.arg.given THEN lastOp.arg.target
                  ELSE IF up THEN <<"head">> ELSE <<"base">>
    IN /\ Len(calls) = 1
       /\ calls[1].tool = (IF up THEN "upgrade" ELSE "downgrade")
       /\ calls[1].directory = ExpectedEnvironment
       /\ calls[1].revision = self.settings_key \o <<"@">> \o target
       /\ \A q \in PluginObjects :
            (q.settings_key /= None /\ q.settings_key /= self.settings_key) =>
                SubSeq(calls[1].revision, 1, Len(q.settings_key) + 1)
                    /= q.settings_key \o <<"@">>

\* C5 as written: upgrade_database and downgrade_database each make exactly one
\* call to the migration tool, on <plugin_folder>/_migration_environment, with
\* revision <settings_key>@<target>, target defaulting to head and to base.
C5_ExactlyOneScopedCall == DatabaseOpDone => OneScopedCall

\* C5 amended: a plugin whose settings_key is set makes exactly that one call;
\* a plugin whose settings_key is None raises TypeError and makes no call.
C5_OneScopedCallWhenKeySet ==
    DatabaseOpDone =>
        IF self.settings_key /= None
        THEN OneScopedCall
        ELSE calls = <<>> /\ raised = "TypeError"

\* downgrade_database() of a plugin with a settings_key asked for <key>@base.
C5_Witness ==
    /\ lastOp.op = "downgrade_database"
    /\ ~lastOp.arg.given
    /\ self.settings_key /= None
    /\ Len(calls) = 1
    /\ calls[1].revision = self.settings_key \o <<"@", "base">>

\* C6: migrate first asks for a revision on the existing branch
\* (head = settings_key); it makes a second call, once, only after the first
\* raised, and that call creates the branch (version_path, branch_label); both
\* calls are made while g.plugin_name is the plugin's module name.
C6_SecondAttemptOnlyAfterFailure ==
    lastOp.op = "migrate" =>
        /\ Len(calls) <= 2
        /\ mpc \in {"second", "exit"} => Len(calls) >= 1
        /\ mpc = "first" => calls = <<>>
        /\ mpc = "second" => Len(calls) = 1
        /\ Len(calls) >= 1 =>
             /\ DOMAIN calls[1] = {"tool", "directory", "head", "g", "outcome"}
             /\ calls[1].tool = "migrate"
             /\ calls[1].directory = ExpectedEnvironment
             /\ calls[1].head = self.settings_key
             /\ calls[1].g = self.module
             /\ calls[1].outcome = "ok" => Len(calls) = 1 /\ mpc /= "second"
        /\ Len(calls) = 2 =>
             /\ calls[1].outcome = "Exception"
             /\ DOMAIN calls[2] =
                    {"tool", "directory", "version_path", "branch_label", "g", "outcome"}
             /\ calls[2].tool = "migrate"
             /\ calls[2].directory = ExpectedEnvironment
             /\ calls[2].version_path = ExpectedVersionDir(self)
             /\ calls[2].branch_label = self.settings_key
             /\ calls[2].g = self.module

\* The first call raised and the second, which creates the branch, returned.
C6_Witness ==
    /\ lastOp.op = "migrate"
    /\ mpc = "exit"
    /\ Len(calls) = 2
    /\ calls[1].outcome = "Exception"
    /\ calls[2].outcome = "ok"
    /\ calls[2].branch_label = self.settings_key

----------------------------------------------------------------------------
\* Properties of config_migrate.

\* The migration-version directories of every plugin of d, joined by spaces,
\* in one of the orders a dict can yield them.
SpaceJoinedDirs(d) ==
    {str_join(<<" ">>, [k \in DOMAIN o |-> ExpectedVersionDir(d[o[k]])]) :
        o \in Orders(DOMAIN d)}

\* C7: config_migrate sets version_locations to the space-joined
\* migration-version directories of all plugins of all_plugins, enabled or not,
\* exactly when version_table is 'plugins'; otherwise it changes no option; it
\* returns the config it was given.
C7_VersionLocationsOnlyForPlugins ==
    lastConfig.called =>
        /\ lastConfig.returned = lastConfig.given
        /\ IF lastConfig.before.version_table = <<"plugins">>
           THEN /\ lastConfig.after.version_table = lastConfig.before.version_table
                /\ lastConfig.after.version_locations \in SpaceJoinedDirs(_all_plugins)
           ELSE lastConfig.after = lastConfig.before

\* The callback ran on a 'plugins' config with an enabled and a disabled plugin.
C7_Witness ==
    /\ lastConfig.called
    /\ lastConfig.before.version_table = <<"plugins">>
    /\ Cardinality(DOMAIN _all_plugins) = 2
    /\ Cardinality(DOMAIN _plugins) = 1
    /\ lastConfig.after.version_locations /= lastConfig.before.version_locations
    /\ Contains(lastConfig.after.version_locations, " ")

====
